---- MODULE Spec2Model ----
(***************************************************************************)
(* verifyHash (src/actions/public/verifyHash.ts): ERC-6492 verification of *)
(* a signature over a hash.  The signature is normalised to hex, a         *)
(* deployment payload for the universal signature validator is built, one  *)
(* eth_call is issued through the client's call action, and the outcome is *)
(* interpreted as a boolean.                                               *)
(*                                                                         *)
(* Hex values are sequences of hex digit characters (the "0x" prefix is    *)
(* left out); byte arrays are sequences of 0..255.  Field widths are       *)
(* scaled down and named as bounds.                                        *)
(***************************************************************************)
EXTENDS Integers, Sequences, FiniteSets, TLC

VARIABLES
    pc,        \* per invocation: position in verifyHash
    params,    \* per invocation: the VerifyHashParameters it was called with
    request,   \* per invocation: the CallParameters handed to the call action
    calls,     \* per invocation: how many times the call action was invoked
    outcome,   \* per invocation: what the call action settled with
    result,    \* per invocation: what the verifyHash promise settled with
    order,     \* invocations in order of completion
    sigIn,     \* normaliser study: three representations of one signature
    sigOut     \* normaliser study: the normaliser's output for each

vars == <<pc, params, request, calls, outcome, result, order, sigIn, sigOut>>

(***************************************************************************)
(* Bounds                                                                  *)
(***************************************************************************)
NumCalls == 2        \* concurrent verifyHash invocations
MaxDataLen == 2      \* bytes of return data the call action may deliver
FieldBytes == 1      \* width of r and of s (32 in the program)
AddressChars == 2    \* hex digits of an address (40 in the program)
HashChars == 2       \* hex digits of a hash (64 in the program)

Calls == 1..NumCalls

(***************************************************************************)
(* Hex and byte conversions (utils/encoding, utils/data)                   *)
(***************************************************************************)
LowerHexDigits == <<"0","1","2","3","4","5","6","7","8","9","a","b","c","d","e","f">>
UpperHexDigits == <<"0","1","2","3","4","5","6","7","8","9","A","B","C","D","E","F">>

HexChars == {LowerHexDigits[i] : i \in 1..16} \cup {UpperHexDigits[i] : i \in 1..16}

\* value of one hex digit, either case
HexVal(c) ==
    CHOOSE n \in 0..15 : LowerHexDigits[n + 1] = c \/ UpperHexDigits[n + 1] = c

\* hexToBytes: odd-length input is left-padded with one "0" digit
hexToBytes(hex) ==
    LET h == IF Len(hex) % 2 = 1 THEN <<"0">> \o hex ELSE hex
    IN  [i \in 1..(Len(h) \div 2) |-> HexVal(h[2 * i - 1]) * 16 + HexVal(h[2 * i])]

\* bytesToHex: two lower-case digits per byte
bytesToHex(bytes) ==
    [i \in 1..(2 * Len(bytes)) |->
        LET b == bytes[(i + 1) \div 2]
        IN  IF i % 2 = 1 THEN LowerHexDigits[(b \div 16) + 1]
                         ELSE LowerHexDigits[(b % 16) + 1]]

\* the same bytes spelled with upper-case digits (an input spelling only)
bytesToUpperHex(bytes) ==
    [i \in 1..(2 * Len(bytes)) |->
        LET b == bytes[(i + 1) \div 2]
        IN  IF i % 2 = 1 THEN UpperHexDigits[(b \div 16) + 1]
                         ELSE UpperHexDigits[(b % 16) + 1]]

RECURSIVE hexToBigInt(_)
hexToBigInt(hex) ==
    IF Len(hex) = 0 THEN 0
    ELSE hexToBigInt(SubSeq(hex, 1, Len(hex) - 1)) * 16 + HexVal(hex[Len(hex)])

RECURSIVE Pow(_, _)
Pow(b, e) == IF e = 0 THEN 1 ELSE b * Pow(b, e - 1)

\* big-endian bytes of n, fixed width
numberToBytes(n, width) ==
    [i \in 1..width |-> (n \div Pow(256, width - i)) % 256]

\* isBytesEqual on two hex values: both are decoded, then compared bytewise
isBytesEqual(a, b) == hexToBytes(a) = hexToBytes(b)

(***************************************************************************)
(* Signature inputs: Hex | ByteArray | Signature                           *)
(***************************************************************************)
Absent == -1   \* an optional numeric field that was not supplied

HexSignature(hex) ==
    [tag |-> "hex", hex |-> hex, bytes |-> <<>>, r |-> <<>>, s |-> <<>>,
     v |-> Absent, yParity |-> Absent]

BytesSignature(bytes) ==
    [tag |-> "bytes", hex |-> <<>>, bytes |-> bytes, r |-> <<>>, s |-> <<>>,
     v |-> Absent, yParity |-> Absent]

ObjectSignature(r, s, v, yParity) ==
    [tag |-> "object", hex |-> <<>>, bytes |-> <<>>, r |-> r, s |-> s,
     v |-> v, yParity |-> yParity]

\* isHex(signature): a string of hex digits
isHex(signature) ==
    /\ signature.tag = "hex"
    /\ \A i \in 1..Len(signature.hex) : signature.hex[i] \in HexChars

Ok(hex) == [ok |-> TRUE, hex |-> hex, error |-> "none"]
Thrown(error) == [ok |-> FALSE, hex |-> <<>>, error |-> error]

\* serializeSignature: r || s || recovery byte (1b or 1c); throws when the
\* recovery data or a scalar is out of range
serializeSignature(signature) ==
    LET r == hexToBigInt(signature.r)
        s == hexToBigInt(signature.s)
        limit == Pow(256, FieldBytes)
        vOk == signature.v \in {27, 28} \/ signature.v >= 35
        yParity ==
            IF signature.yParity \in {0, 1} THEN signature.yParity
            ELSE IF signature.v % 2 = 0 THEN 1 ELSE 0
    IN  IF signature.yParity \notin {0, 1} /\ ~vOk THEN Thrown("EncodingError")
        ELSE IF r < 1 \/ r >= limit \/ s < 1 \/ s >= limit THEN Thrown("EncodingError")
        ELSE Ok(bytesToHex(numberToBytes(r, FieldBytes))
                \o bytesToHex(numberToBytes(s, FieldBytes))
                \o (IF yParity = 0 THEN <<"1", "b">> ELSE <<"1", "c">>))

\* a plausible slip: raw bytes are hex-encoded without their recovery byte
signatureHexTruncating(signature) ==
    IF isHex(signature) THEN Ok(signature.hex)
    ELSE IF signature.tag = "object" THEN serializeSignature(signature)
    ELSE Ok(bytesToHex(SubSeq(signature.bytes, 1, Len(signature.bytes) - 1)))

\* the signatureHex closure of verifyHash
signatureHex(signature) ==
    IF isHex(signature) THEN Ok(signature.hex)
    ELSE IF signature.tag = "object" THEN serializeSignature(signature)
    ELSE Ok(bytesToHex(signature.bytes))

(***************************************************************************)
(* Payload and request                                                     *)
(***************************************************************************)
\* universalSignatureValidatorByteCode (constants/contracts.js), abbreviated
universalSignatureValidatorByteCode == <<"6", "0", "8", "0">>

\* encodeAbiParameters for (address, bytes32, bytes): the two static words,
\* then the length of the signature and its bytes
encodeAbiParameters(address, hash, sigHex) ==
    address \o hash \o bytesToHex(<<Len(hexToBytes(sigHex))>>) \o sigHex

\* encodeDeployData: bytecode followed by the encoded constructor arguments;
\* throws on an argument of the wrong size
encodeDeployData(address, hash, sigHex) ==
    IF Len(address) # AddressChars THEN Thrown("InvalidAddressError")
    ELSE IF Len(hash) # HashChars THEN Thrown("AbiEncodingBytesSizeMismatchError")
    ELSE Ok(universalSignatureValidatorByteCode \o encodeAbiParameters(address, hash, sigHex))

\* a plausible slip: a block tag is defaulted when the caller gave none
BuildRequestDefaultingTag(data, callRequest) ==
    [k \in {"data", "blockTag"} \cup DOMAIN callRequest |->
        IF k \in DOMAIN callRequest THEN callRequest[k]
        ELSE IF k = "blockTag" THEN "latest" ELSE data]

\* the object literal { data: ..., ...callRequest }: spread properties come
\* after data, so a spread key wins over the literal one
BuildRequest(data, callRequest) ==
    [k \in {"data"} \cup DOMAIN callRequest |->
        IF k \in DOMAIN callRequest THEN callRequest[k] ELSE data]

(***************************************************************************)
(* Outcome of the call action and its interpretation                       *)
(***************************************************************************)
Undefined == [present |-> FALSE, hex |-> <<>>]
Data(hex) == [present |-> TRUE, hex |-> hex]

Succeeded(data) == [kind |-> "success", data |-> data, error |-> "none"]
Failed(error) == [kind |-> "error", data |-> Undefined, error |-> error]
NoOutcome == [kind |-> "none", data |-> Undefined, error |-> "none"]

Value(b) == [kind |-> "value", value |-> b, error |-> "none"]
Error(e) == [kind |-> "error", value |-> FALSE, error |-> e]
NoResult == [kind |-> "none", value |-> FALSE, error |-> "none"]

\* a plausible slip: missing data defaults to the sentinel
NullishToOne(data) == IF data.present THEN data.hex ELSE <<"1">>

\* data ?? '0x0'
NullishDefault(data) == IF data.present THEN data.hex ELSE <<"0">>

\* a plausible slip: only the last byte is compared (accepts a padded 1)
InterpretLastByte(data) ==
    LET b == hexToBytes(NullishDefault(data))
    IN  Len(b) > 0 /\ b[Len(b)] = 1

\* isBytesEqual(data ?? '0x0', '0x1')
Interpret(data) == isBytesEqual(NullishDefault(data), <<"1">>)

\* plausible slips in the catch clause: nothing recovered, everything recovered
NeverCallExecutionError(error) == FALSE
AlwaysCallExecutionError(error) == TRUE

\* error instanceof CallExecutionError
IsCallExecutionError(error) == error = "CallExecutionError"

\* the catch clause: a revert becomes false, anything else is rethrown
Catch(error) == IF IsCallExecutionError(error) THEN Value(FALSE) ELSE Error(error)

(***************************************************************************)
(* Inputs                                                                  *)
(***************************************************************************)
Fill(n, c) == [i \in 1..n |-> c]

Addresses == {Fill(AddressChars, "a"), Fill(AddressChars, "b"), Fill(AddressChars - 1, "a")}
Hashes == {Fill(HashChars, "1")}

FieldMax == Pow(256, FieldBytes) - 1
FieldValues == {1, 171, FieldMax}

\* r || s || recovery byte
SignatureBytes(r, s, yParity) ==
    numberToBytes(r, FieldBytes) \o numberToBytes(s, FieldBytes) \o <<27 + yParity>>

FieldHex(n, upper) ==
    IF upper THEN bytesToUpperHex(numberToBytes(n, FieldBytes))
    ELSE bytesToHex(numberToBytes(n, FieldBytes))

Signatures ==
    { HexSignature(bytesToHex(SignatureBytes(171, 1, 0))),
      HexSignature(bytesToUpperHex(SignatureBytes(171, 1, 0))),
      HexSignature(<<>>),
      BytesSignature(SignatureBytes(171, 1, 0)),
      ObjectSignature(FieldHex(171, FALSE), FieldHex(1, FALSE), 27, Absent),
      ObjectSignature(FieldHex(171, FALSE), FieldHex(1, FALSE), 5, Absent),
      ObjectSignature(FieldHex(0, FALSE), FieldHex(1, FALSE), Absent, 1) }

OptionalKeys == {"blockNumber", "blockTag", "factory", "factoryData"}
RestKeys == OptionalKeys \cup {"data"}

FullRests ==
    [blockNumber : {16}, blockTag : {"safe"},
     factory : {Fill(AddressChars, "f"), Fill(AddressChars, "e")},
     factoryData : {<<"c", "a", "f", "e">>},
     data : {<<"d", "e", "a", "d">>}]

\* what the rest pattern ...callRequest can collect
CallRequests == {[k \in S |-> full[k]] : full \in FullRests, S \in SUBSET RestKeys}

NoRequest == [k \in {} |-> 0]

Parameters ==
    [address : Addresses, hash : Hashes, signature : Signatures, callRequest : CallRequests]

NoParameters ==
    [address |-> <<>>, hash |-> <<>>, signature |-> HexSignature(<<>>),
     callRequest |-> NoRequest]

ErrorKinds == {"CallExecutionError", "TimeoutError", "HttpRequestError"}
DataBytes == {0, 1, 255}
ReturnData ==
    {Undefined} \cup
    {Data(bytesToHex(b)) : b \in UNION {[1..n -> DataBytes] : n \in 0..MaxDataLen}}
Outcomes == {Succeeded(d) : d \in ReturnData} \cup {Failed(e) : e \in ErrorKinds}

\* the smaller input sets of the concurrent runs
FewParameters ==
    { [address |-> Fill(AddressChars, "a"), hash |-> Fill(HashChars, "1"),
       signature |-> HexSignature(bytesToHex(SignatureBytes(171, 1, 0))),
       callRequest |-> NoRequest],
      [address |-> Fill(AddressChars, "b"), hash |-> Fill(HashChars, "1"),
       signature |-> BytesSignature(SignatureBytes(1, 171, 1)),
       callRequest |-> [k \in {"factory"} |-> Fill(AddressChars, "f")]],
      [address |-> Fill(AddressChars, "a"), hash |-> Fill(HashChars, "1"),
       signature |-> ObjectSignature(FieldHex(171, FALSE), FieldHex(1, FALSE), 5, Absent),
       callRequest |-> NoRequest] }
FewOutcomes ==
    { Succeeded(Data(<<"0", "1">>)), Succeeded(Data(<<"0", "0">>)), Succeeded(Undefined),
      Failed("CallExecutionError"), Failed("TimeoutError") }

(***************************************************************************)
(* verifyHash as a state machine.  JavaScript runs each invocation to its  *)
(* await without interruption: Invoke is the synchronous part up to the    *)
(* await of the call action, Respond is the call action settling, Resume   *)
(* is the continuation after the await.                                    *)
(***************************************************************************)
Settled == {"resolved", "rejected"}

Settle(i, r) ==
    /\ pc' = [pc EXCEPT ![i] = IF r.kind = "value" THEN "resolved" ELSE "rejected"]
    /\ result' = [result EXCEPT ![i] = r]
    /\ order' = Append(order, i)

\* a plausible slip: a signature that cannot be normalised is replaced by
\* the empty signature and the call goes out all the same
InvokeSwallowing(i, P) ==
    /\ pc[i] = "idle"
    /\ \E p \in P :
        LET sig == signatureHex(p.signature)
            payload == encodeDeployData(p.address, p.hash, IF sig.ok THEN sig.hex ELSE <<>>)
        IN  /\ params' = [params EXCEPT ![i] = p]
            /\ IF ~payload.ok
               THEN /\ Settle(i, Catch(payload.error))
                    /\ UNCHANGED <<request, calls>>
               ELSE /\ request' = [request EXCEPT ![i] = BuildRequest(payload.hex, p.callRequest)]
                    /\ calls' = [calls EXCEPT ![i] = @ + 1]
                    /\ pc' = [pc EXCEPT ![i] = "awaiting"]
                    /\ UNCHANGED <<result, order>>
    /\ UNCHANGED <<outcome, sigIn, sigOut>>

\* verifyHash up to its await: normalise the signature (outside the try),
\* build the payload and hand the request to the call action (inside it)
Invoke(i, P) ==
    /\ pc[i] = "idle"
    /\ \E p \in P :
        LET sig == signatureHex(p.signature)
            payload == encodeDeployData(p.address, p.hash, sig.hex)
        IN  /\ params' = [params EXCEPT ![i] = p]
            /\ IF ~sig.ok
               THEN /\ Settle(i, Error(sig.error))
                    /\ UNCHANGED <<request, calls>>
               ELSE IF ~payload.ok
               THEN /\ Settle(i, Catch(payload.error))
                    /\ UNCHANGED <<request, calls>>
               ELSE /\ request' = [request EXCEPT ![i] = BuildRequest(payload.hex, p.callRequest)]
                    /\ calls' = [calls EXCEPT ![i] = @ + 1]
                    /\ pc' = [pc EXCEPT ![i] = "awaiting"]
                    /\ UNCHANGED <<result, order>>
    /\ UNCHANGED <<outcome, sigIn, sigOut>>

\* the call action settles: return data, or an error
Respond(i, O) ==
    /\ pc[i] = "awaiting"
    /\ \E o \in O : outcome' = [outcome EXCEPT ![i] = o]
    /\ pc' = [pc EXCEPT ![i] = "responded"]
    /\ UNCHANGED <<params, request, calls, result, order, sigIn, sigOut>>

\* a plausible slip: a reverted call is tried once more
ResumeRetrying(i) ==
    /\ pc[i] = "responded"
    /\ IF outcome[i].kind = "error" /\ IsCallExecutionError(outcome[i].error) /\ calls[i] < 2
       THEN /\ calls' = [calls EXCEPT ![i] = @ + 1]
            /\ pc' = [pc EXCEPT ![i] = "awaiting"]
            /\ UNCHANGED <<result, order>>
       ELSE /\ Settle(i, IF outcome[i].kind = "success"
                         THEN Value(Interpret(outcome[i].data))
                         ELSE Catch(outcome[i].error))
            /\ UNCHANGED calls
    /\ UNCHANGED <<params, request, outcome, sigIn, sigOut>>

\* a plausible slip: the response is kept in one slot shared by all
\* invocations, so a continuation reads the lowest-numbered delivered one
ResumeShared(i) ==
    /\ pc[i] = "responded"
    /\ LET j == CHOOSE k \in Calls : outcome[k].kind # "none" /\
                    \A l \in Calls : outcome[l].kind # "none" => k <= l
       IN  Settle(i, IF outcome[j].kind = "success"
                     THEN Value(Interpret(outcome[j].data))
                     ELSE Catch(outcome[j].error))
    /\ UNCHANGED <<params, request, calls, outcome, sigIn, sigOut>>

\* the continuation after the await: interpret the data, or catch the error
Resume(i) ==
    /\ pc[i] = "responded"
    /\ Settle(i, IF outcome[i].kind = "success"
                 THEN Value(Interpret(outcome[i].data))
                 ELSE Catch(outcome[i].error))
    /\ UNCHANGED <<params, request, calls, outcome, sigIn, sigOut>>

(***************************************************************************)
(* The normaliser on its own: one signature in its three representations   *)
(***************************************************************************)
RecoveryForms == {"v", "yParity", "eip155"}

Representations(r, s, yParity, form, upper) ==
    [hex |-> HexSignature(IF upper THEN bytesToUpperHex(SignatureBytes(r, s, yParity))
                          ELSE bytesToHex(SignatureBytes(r, s, yParity))),
     bytes |-> BytesSignature(SignatureBytes(r, s, yParity)),
     object |-> ObjectSignature(FieldHex(r, upper), FieldHex(s, upper),
                    CASE form = "v" -> 27 + yParity
                      [] form = "eip155" -> 37 + yParity
                      [] OTHER -> Absent,
                    IF form = "yParity" THEN yParity ELSE Absent)]

NoRepresentations == Representations(1, 1, 0, "v", FALSE)
NotNormalised == [done |-> FALSE, hex |-> Thrown("none"), bytes |-> Thrown("none"),
                  object |-> Thrown("none")]

Normalise ==
    /\ ~sigOut.done
    /\ sigOut' = [done |-> TRUE, hex |-> signatureHex(sigIn.hex),
                  bytes |-> signatureHex(sigIn.bytes), object |-> signatureHex(sigIn.object)]
    /\ UNCHANGED <<pc, params, request, calls, outcome, result, order, sigIn>>

(***************************************************************************)
(* Specifications                                                          *)
(***************************************************************************)
IdleInit ==
    /\ pc = [i \in Calls |-> "idle"]
    /\ params = [i \in Calls |-> NoParameters]
    /\ request = [i \in Calls |-> NoRequest]
    /\ calls = [i \in Calls |-> 0]
    /\ outcome = [i \in Calls |-> NoOutcome]
    /\ result = [i \in Calls |-> NoResult]
    /\ order = <<>>

\* one invocation, over the full input sets
Init ==
    /\ IdleInit
    /\ sigIn = NoRepresentations
    /\ sigOut = NotNormalised

Next ==
    \/ Invoke(1, Parameters)
    \/ Respond(1, Outcomes)
    \/ Resume(1)

Spec == Init /\ [][Next]_vars

\* NumCalls invocations interleaved, over the smaller input sets
NextConcurrent ==
    \E i \in Calls :
        \/ Invoke(i, FewParameters)
        \/ Respond(i, FewOutcomes)
        \/ Resume(i)

SpecConcurrent == Init /\ [][NextConcurrent]_vars

\* the normaliser applied to every signature of the bounded family
InitNormaliser ==
    /\ IdleInit
    /\ \E r \in FieldValues, s \in FieldValues, yParity \in {0, 1},
          form \in RecoveryForms, upper \in BOOLEAN :
            sigIn = Representations(r, s, yParity, form, upper)
    /\ sigOut = NotNormalised

NextNormaliser == Normalise

SpecNormaliser == InitNormaliser /\ [][NextNormaliser]_vars

(***************************************************************************)
(* Properties                                                              *)
(***************************************************************************)
Sentinel == <<"0", "1">>   \* the return data 0x01

\* C1: when the call action succeeds, verifyHash resolves, and resolves to
\* true exactly when the returned data is the single byte 0x01; 0x00, a
\* longer value ending in 01, any other byte, and missing data give false.
C1_TrueIffSentinel ==
    \A i \in Calls :
        (pc[i] \in Settled /\ outcome[i].kind = "success") =>
            /\ pc[i] = "resolved"
            /\ result[i].kind = "value"
            /\ result[i].value = (outcome[i].data.present /\ outcome[i].data.hex = Sentinel)

C1_Witness ==
    /\ pc[1] = "resolved"
    /\ outcome[1] = Succeeded(Data(Sentinel))
    /\ result[1] = Value(TRUE)

\* C2: when the call action fails with a CallExecutionError, verifyHash
\* resolves to false and rejects with nothing.
C2_RevertIsFalse ==
    \A i \in Calls :
        (pc[i] \in Settled /\ outcome[i] = Failed("CallExecutionError")) =>
            /\ pc[i] = "resolved"
            /\ result[i] = Value(FALSE)

C2_Witness ==
    /\ pc[1] = "resolved"
    /\ outcome[1] = Failed("CallExecutionError")
    /\ result[1] = Value(FALSE)

\* C3: when the call action fails with an error that is no
\* CallExecutionError, verifyHash rejects with that very error and resolves
\* to neither true nor false.
C3_OtherErrorPropagates ==
    \A i \in Calls :
        (pc[i] \in Settled /\ outcome[i].kind = "error"
            /\ outcome[i].error # "CallExecutionError") =>
            /\ pc[i] = "rejected"
            /\ result[i].kind = "error"
            /\ result[i].error = outcome[i].error

C3_Witness ==
    /\ pc[1] = "rejected"
    /\ outcome[1] = Failed("TimeoutError")
    /\ result[1] = Error("TimeoutError")

\* C4: when the call action succeeds with empty return data or with no
\* return data at all, verifyHash resolves to false, the verdict a single
\* zero byte gets, and rejects with nothing.
C4_EmptyDataIsFalse ==
    \A i \in Calls :
        (pc[i] \in Settled /\ outcome[i].kind = "success"
            /\ (~outcome[i].data.present \/ outcome[i].data.hex = <<>>)) =>
            /\ pc[i] = "resolved"
            /\ result[i] = Value(FALSE)
            /\ result[i] = Value(Interpret(Data(<<"0", "0">>)))

C4_Witness ==
    /\ pc[1] = "resolved"
    /\ outcome[1] = Succeeded(Undefined)
    /\ result[1] = Value(FALSE)

\* C5 as stated: the normaliser's outputs for the hex string, the raw bytes
\* and the structured record of one signature are the same hex string.
C5_IdenticalOutputs ==
    sigOut.done =>
        /\ sigOut.hex.ok /\ sigOut.bytes.ok /\ sigOut.object.ok
        /\ sigOut.hex.hex = sigOut.bytes.hex
        /\ sigOut.bytes.hex = sigOut.object.hex

LowerCase(hex) == hex = bytesToHex(hexToBytes(hex))

\* C5 amended: the hex string is passed through unchanged, the raw bytes
\* and the structured record give the same lower-case hex string, and the
\* three outputs denote the same bytes; they are the same string when the
\* hex string given is itself in lower case.
C5_SameBytes ==
    sigOut.done =>
        /\ sigOut.hex.ok /\ sigOut.bytes.ok /\ sigOut.object.ok
        /\ sigOut.hex.hex = sigIn.hex.hex
        /\ sigOut.bytes.hex = sigOut.object.hex
        /\ hexToBytes(sigOut.hex.hex) = sigIn.bytes.bytes
        /\ hexToBytes(sigOut.bytes.hex) = sigIn.bytes.bytes
        /\ LowerCase(sigIn.hex.hex) => sigOut.hex.hex = sigOut.bytes.hex

C5_Witness ==
    /\ sigOut.done
    /\ ~LowerCase(sigIn.hex.hex)
    /\ sigIn.object.v >= 35
    /\ sigOut.hex.hex # sigOut.bytes.hex
    /\ hexToBytes(sigOut.hex.hex) = hexToBytes(sigOut.object.hex)

\* C6: each of blockNumber, blockTag, factory and factoryData the caller
\* supplied is in the request with the value supplied, and one the caller
\* did not supply is not in the request.
C6_OptionalsForwarded ==
    \A i \in Calls :
        calls[i] > 0 =>
            \A k \in OptionalKeys :
                IF k \in DOMAIN params[i].callRequest
                THEN k \in DOMAIN request[i] /\ request[i][k] = params[i].callRequest[k]
                ELSE k \notin DOMAIN request[i]

C6_Witness ==
    /\ calls[1] = 1
    /\ DOMAIN params[1].callRequest = {"factory", "factoryData"}
    /\ DOMAIN request[1] = {"data", "factory", "factoryData"}
    /\ request[1].factoryData = <<"c", "a", "f", "e">>

\* C7: when the signature cannot be normalised, verifyHash rejects with the
\* encoding error, the call action is never invoked for that invocation,
\* and the result is not false.
C7_EncodingErrorBeforeCall ==
    \A i \in Calls :
        (pc[i] # "idle" /\ ~signatureHex(params[i].signature).ok) =>
            /\ pc[i] = "rejected"
            /\ result[i] = Error(signatureHex(params[i].signature).error)
            /\ calls[i] = 0
            /\ request[i] = NoRequest
            /\ outcome[i] = NoOutcome

C7_Witness ==
    /\ pc[1] = "rejected"
    /\ params[1].signature.tag = "object"
    /\ params[1].signature.v = 5
    /\ result[1] = Error("EncodingError")
    /\ calls[1] = 0

PayloadBuilt(p) ==
    /\ signatureHex(p.signature).ok
    /\ encodeDeployData(p.address, p.hash, signatureHex(p.signature).hex).ok

\* C8: an invocation whose normalisation and payload building succeed
\* invokes the call action exactly once, whatever the outcome, and any
\* other invocation not at all.
C8_ExactlyOneCall ==
    \A i \in Calls :
        /\ calls[i] <= 1
        /\ pc[i] # "idle" => calls[i] = (IF PayloadBuilt(params[i]) THEN 1 ELSE 0)

C8_Witness ==
    /\ pc[1] = "resolved"
    /\ outcome[1] = Failed("CallExecutionError")
    /\ calls[1] = 1

ExpectedVerdict(o) ==
    IF o.kind = "success" THEN Value(o.data.present /\ o.data.hex = Sentinel)
    ELSE IF o.error = "CallExecutionError" THEN Value(FALSE)
    ELSE Error(o.error)

\* C9: under every interleaving, a settled invocation's result is the
\* verdict of its own call outcome, and two settled invocations with the
\* same parameters and the same outcome have the same result, whatever the
\* others did and in whatever order they completed.
C9_Independent ==
    \A i \in Calls :
        pc[i] \in Settled =>
            /\ calls[i] > 0 => result[i] = ExpectedVerdict(outcome[i])
            /\ \A j \in Calls :
                (pc[j] \in Settled /\ params[j] = params[i] /\ outcome[j] = outcome[i])
                    => result[j] = result[i]

C9_Witness ==
    /\ order = <<2, 1>>
    /\ params[1] = params[2]
    /\ outcome[1] = Failed("CallExecutionError")
    /\ outcome[2] = Succeeded(Data(Sentinel))
    /\ result[1] = Value(FALSE)
    /\ result[2] = Value(TRUE)

\* C10: in every request handed to the call action, data is the validator
\* bytecode followed by the encoded (address, hash, normalised signature) of
\* the same invocation, whatever else the caller passed.
C10_DataIsPayload ==
    \A i \in Calls :
        calls[i] > 0 =>
            request[i].data =
                universalSignatureValidatorByteCode
                    \o encodeAbiParameters(params[i].address, params[i].hash,
                                           signatureHex(params[i].signature).hex)

====
